---------------------------- MODULE Spec2Model ----------------------------
(***************************************************************************)
(* Model of scripts/import_noaa.py: the fixed-width .dly parser            *)
(* (parse_dly_file), the batching loop of import_weather_data, the upserts *)
(* of download_stations / insert_batch and update_station_date_ranges, as  *)
(* sequenced by main.                                                      *)
(*                                                                         *)
(* Representation.                                                         *)
(*   - A fixed-width field is a token [kind, val]: kind "int" is a field   *)
(*     Python's int() accepts (val its value), "blank" a field that is     *)
(*     empty after strip(), "text" any other content (int() raises         *)
(*     ValueError).  The only 5-character spelling of -9999 is "-9999", so *)
(*     value_str == "-9999" is kind = "int" /\ val = -9999.                *)
(*   - A line is [len, year, month, element, slots], slots a function on   *)
(*     1..31; a file is a sequence of lines (file_content.split('\n')).    *)
(*   - A date is <<year, month, day>>; a nullable column is <<>> (None /   *)
(*     NULL) or <<v>>.                                                     *)
(*   - A Python dict is a function; the dict `records`, whose insertion    *)
(*     order decides the order of the returned rows, is a sequence of      *)
(*     entries [d, data].                                                  *)
(*   - A table is a set of rows, so that two rows with one key are         *)
(*     representable and key uniqueness is something the upsert has to     *)
(*     establish.                                                          *)
(***************************************************************************)
EXTENDS Integers, Sequences, FiniteSets, TLC

(***************************************************************************)
(* Configuration (module level of import_noaa.py)                          *)
(***************************************************************************)
YEARS_TO_IMPORT == 25

\* datetime.now().year at import time
CurrentYear == 2026

MIN_YEAR == CurrentYear - YEARS_TO_IMPORT

\* BATCH_SIZE is 10000 in the script; the model runs the same loop with a
\* small threshold so that streams of BATCH_SIZE-1, BATCH_SIZE, BATCH_SIZE+1
\* rows are enumerable.
BATCH_SIZE == 3

\* len(line) < 269
LINE_MIN_LEN == 269

\* range(1, 32)
LAST_SLOT == 31

(***************************************************************************)
(* Bounds of the model                                                     *)
(***************************************************************************)
\* lines per generated station file (SpecParse)
MaxLines == 2

\* raw readings -MaxRaw..MaxRaw are converted (SpecConv)
MaxRaw == 9998

\* archive members per run (Spec)
MaxMembers == 3

(***************************************************************************)
(* Tokens, dates, small helpers                                            *)
(***************************************************************************)
None == <<>>

Some(v) == <<v>>

Int5(v) == [kind |-> "int", val |-> v]

Blank == [kind |-> "blank", val |-> 0]

Text == [kind |-> "text", val |-> 0]

Sentinel == Int5(-9999)

Elements == {"TMAX", "TMIN", "PRCP", "SNOW"}

\* str.lower() on the four element codes
Lower(element) ==
  CASE element = "TMAX" -> "tmax"
    [] element = "TMIN" -> "tmin"
    [] element = "PRCP" -> "prcp"
    [] element = "SNOW" -> "snow"

IsLeap(y) == (y % 4 = 0) /\ ((y % 100 # 0) \/ (y % 400 = 0))

DaysInMonth(y, m) ==
  IF m \in {4, 6, 9, 11} THEN 30
  ELSE IF m = 2 THEN (IF IsLeap(y) THEN 29 ELSE 28)
  ELSE 31

\* datetime.date(year, month, day) does not raise ValueError
IsValidDate(y, m, d) ==
  /\ y >= 1 /\ y <= 9999
  /\ m >= 1 /\ m <= 12
  /\ d >= 1 /\ d <= DaysInMonth(y, m)

DateLess(a, b) ==
  \/ a[1] < b[1]
  \/ a[1] = b[1] /\ a[2] < b[2]
  \/ a[1] = b[1] /\ a[2] = b[2] /\ a[3] < b[3]

\* int(x) of a float x = n/d with d > 0: truncation toward zero
TruncDiv(n, d) == IF n >= 0 THEN n \div d ELSE -((-n) \div d)

(***************************************************************************)
(* parse_dly_file                                                          *)
(***************************************************************************)
\* int(value * 9 / 5) + 320: the product truncated, then 320 added
ToFahrenheitProduct(value) == TruncDiv(9 * value, 5) + 320

\* int(value * 9 / 5 + 320): the true division and the addition are done in
\* floating point and int() truncates the SUM.  value*9/5 + 320 is the
\* rational (9*value + 1600)/5, whose fractional part is a multiple of 1/5,
\* so the float result truncates as the exact rational does.
ToFahrenheit(value) == TruncDiv(9 * value + 320 * 5, 5)

Normalize(element, value) ==
  IF element \in {"TMAX", "TMIN"} THEN ToFahrenheit(value) ELSE value

\* index of date d in the insertion-ordered dict `records`, 0 if absent
IndexOf(records, d) ==
  IF \E i \in 1..Len(records) : records[i].d = d
  THEN CHOOSE i \in 1..Len(records) : records[i].d = d
  ELSE 0

\* records[d][key] = value, after `if d not in records: records[d] = {}`
SetReading(records, d, key, value) ==
  LET recs == IF IndexOf(records, d) = 0
              THEN Append(records, [d |-> d, data |-> <<>>])
              ELSE records
      i == IndexOf(recs, d)
      old == recs[i].data
      new == [k \in (DOMAIN old) \cup {key} |-> IF k = key THEN value ELSE old[k]]
  IN [recs EXCEPT ![i].data = new]

\* the three `continue` of the loop over the day slots: the sentinel or an
\* empty field, a field int() rejects, a date datetime.date() rejects
SlotSkipped(line, day) ==
  LET tok == line.slots[day]
  IN \/ tok = Sentinel \/ tok.kind = "blank"
     \/ tok.kind # "int"
     \/ ~IsValidDate(line.year.val, line.month.val, day)

\* the first day >= day whose iteration does not `continue`, LAST_SLOT + 1
\* if there is none
NextDay(line, day) ==
  IF \E dd \in day..LAST_SLOT : ~SlotSkipped(line, dd)
  THEN CHOOSE dd \in day..LAST_SLOT :
         /\ ~SlotSkipped(line, dd)
         /\ \A e \in day..(dd - 1) : SlotSkipped(line, e)
  ELSE LAST_SLOT + 1

\* `for day in range(1, 32)`, from `day` on: the iterations that `continue`
\* change nothing, the others store their reading in ascending order
RECURSIVE ParseDays(_, _, _)
ParseDays(records, line, day) ==
  LET dd == NextDay(line, day)
  IN IF dd > LAST_SLOT THEN records
     ELSE ParseDays(SetReading(records, <<line.year.val, line.month.val, dd>>,
                               Lower(line.element),
                               Normalize(line.element, line.slots[dd].val)),
                    line, dd + 1)

\* the loop over file_content.split('\n'); raised = TRUE is an uncaught
\* ValueError from int(line[11:15]) or int(line[15:17])
RECURSIVE ParseLines(_, _, _)
ParseLines(records, content, i) ==
  IF i > Len(content) THEN [raised |-> FALSE, records |-> records]
  ELSE LET line == content[i]
       IN IF line.len < LINE_MIN_LEN THEN ParseLines(records, content, i + 1)
          ELSE IF line.year.kind # "int" THEN [raised |-> TRUE, records |-> <<>>]
          ELSE IF line.year.val < MIN_YEAR THEN ParseLines(records, content, i + 1)
          ELSE IF line.month.kind # "int" THEN [raised |-> TRUE, records |-> <<>>]
          ELSE IF line.element \notin Elements THEN ParseLines(records, content, i + 1)
          ELSE ParseLines(ParseDays(records, line, 1), content, i + 1)

\* dict.get(key): None when the key is absent
Get(data, key) == IF key \in DOMAIN data THEN Some(data[key]) ELSE None

Row(station_id, entry) ==
  [station_id |-> station_id, date |-> entry.d,
   month |-> entry.d[2], day |-> entry.d[3],
   tmax |-> Get(entry.data, "tmax"), tmin |-> Get(entry.data, "tmin"),
   prcp |-> Get(entry.data, "prcp"), snow |-> Get(entry.data, "snow")]

\* `if 'tmax' in data or 'tmin' in data`
HasTemp(entry) == "tmax" \in DOMAIN entry.data \/ "tmin" \in DOMAIN entry.data

RECURSIVE ToRows(_, _, _)
ToRows(records, station_id, i) ==
  IF i > Len(records) THEN <<>>
  ELSE (IF HasTemp(records[i]) THEN <<Row(station_id, records[i])>> ELSE <<>>)
       \o ToRows(records, station_id, i + 1)

\* [raised, rows]: raised = TRUE when the call ends in ValueError
parse_dly_file(file_content, station_id) ==
  LET p == ParseLines(<<>>, file_content, 1)
  IN IF p.raised THEN [raised |-> TRUE, rows |-> <<>>]
     ELSE [raised |-> FALSE, rows |-> ToRows(p.records, station_id, 1)]


(***************************************************************************)
(* State                                                                   *)
(***************************************************************************)
VARIABLES
  file_content,        \* parse_dly_file: the station file handed to the call under test
  result,              \* parse_dly_file: <<>> before the call, <<[raised, rows]>> after it
  pc,                  \* main: the call about to be made, or "done" / "failed"
  run,                 \* "first" or "second" invocation of main on the same inputs
  feed,                \* the station metadata feed (STATIONS_URL), a sequence of lines
  archive,             \* the members of ghcnd_all.tar.gz, in archive order
  idx,                 \* import_weather_data: position of `for member in tar`
  stations,            \* table stations
  weather,             \* table weather_daily
  batch,               \* import_weather_data: the list `batch`
  total_records,       \* import_weather_data: total_records
  stations_processed,  \* import_weather_data: stations_processed
  error,               \* the exception that left main, <<>> when none
  flushLog,            \* history: the insert_batch calls of this run, in order
  last_commit,         \* history: <<>>, or the last committed insert_batch: weather_daily before it and its batch
  stations0,           \* history: table stations when this run started
  weather0,            \* history: table weather_daily when this run started
  ranges_updated,      \* history: update_station_date_ranges has run in this run
  after_first          \* history: <<>>, or the outcome and the store at the end of the first run

parseVars == <<file_content, result>>

mainVars == <<pc, run, feed, archive, idx, stations, weather, batch, total_records,
              stations_processed, error, flushLog, last_commit, stations0, weather0,
              ranges_updated, after_first>>

vars == <<parseVars, mainVars>>

(***************************************************************************)
(* Station files                                                           *)
(***************************************************************************)
\* a line of LINE_MIN_LEN characters whose slots are blank except `filled`
Line(year, month, element, filled) ==
  [len |-> LINE_MIN_LEN, year |-> year, month |-> month, element |-> element,
   slots |-> [day \in 1..LAST_SLOT |->
                IF day \in DOMAIN filled THEN filled[day] ELSE Blank]]

Y(n) == [kind |-> "int", val |-> n]

\* one reading per line: every element code (TAVG stands for the codes that
\* are not recognized), valid and invalid dates, an inexact positive and an
\* inexact negative raw value
ReadingLines ==
  { Line(Y(2020), Y(md[1]), e, md[2] :> Int5(v)) :
      e \in Elements \cup {"TAVG"},
      md \in {<<2, 1>>, <<2, 30>>, <<3, 1>>, <<3, 30>>},
      v \in {37, -1} }

\* slots that hold no reading: the sentinel and a non-numeric field
EmptyLines ==
  { Line(Y(2020), Y(2), e, 1 :> t) : e \in Elements, t \in {Sentinel, Text} }
  \cup { Line(Y(2020), Y(2), "TMAX", <<>>) }

SpecialLines ==
  { [Line(Y(2020), Y(2), "TMAX", 1 :> Int5(50)) EXCEPT !.len = LINE_MIN_LEN - 1],
    Line(Y(MIN_YEAR - 1), Y(2), "TMAX", 1 :> Int5(50)),
    Line(Y(MIN_YEAR), Y(2), "TMIN", 1 :> Int5(50)),
    Line(Y(MIN_YEAR - 1), Text, "TMAX", 1 :> Int5(50)),
    Line(Text, Y(2), "TAVG", 1 :> Int5(50)),
    Line(Text, Y(2), "TMAX", 1 :> Int5(50)),
    Line(Y(2020), Text, "TAVG", 1 :> Int5(50)),
    Line(Y(2020), Blank, "PRCP", 1 :> Int5(50)),
    Line(Y(2020), Y(13), "TMAX", 1 :> Int5(50)),
    Line(Y(2020), Y(3), "TMAX", (1 :> Int5(150)) @@ (2 :> Sentinel)),
    Line(Y(2020), Y(3), "PRCP", 1 :> Int5(10)) }

LineSet == ReadingLines \cup EmptyLines \cup SpecialLines

SeqsUpTo(S, n) == UNION { [1..k -> S] : k \in 0..n }

US1 == <<"U", "S", "1">>

(***************************************************************************)
(* parse_dly_file as an operation: SpecParse applies it to every file of   *)
(* at most MaxLines lines of LineSet, SpecConv to one reading of every raw *)
(* value in -MaxRaw..MaxRaw for each element.                              *)
(***************************************************************************)
\* main is not running
MainIdle ==
  /\ pc = "idle" /\ run = "first" /\ feed = <<>> /\ archive = <<>> /\ idx = 1
  /\ stations = {} /\ weather = {} /\ batch = <<>>
  /\ total_records = 0 /\ stations_processed = 0 /\ error = <<>>
  /\ flushLog = <<>> /\ last_commit = <<>> /\ stations0 = {} /\ weather0 = {}
  /\ ranges_updated = FALSE /\ after_first = <<>>

InitParse ==
  /\ file_content \in SeqsUpTo(LineSet, MaxLines)
  /\ result = <<>>
  /\ MainIdle

\* the reading under test is line 2, day 1 (any raw value but the sentinel);
\* line 1 gives the date a temperature so that the row is returned for PRCP
\* and SNOW as well
InitConv ==
  /\ \E e \in Elements, v \in ((-MaxRaw)..MaxRaw) \ {Sentinel.val} :
       file_content = << Line(Y(2020), Y(3), "TMIN", 1 :> Int5(0)),
                         Line(Y(2020), Y(3), e, 1 :> Int5(v)) >>
  /\ result = <<>>
  /\ MainIdle

ParseFile ==
  /\ result = <<>>
  /\ result' = << parse_dly_file(file_content, US1) >>
  /\ UNCHANGED file_content
  /\ UNCHANGED mainVars

NextParse == ParseFile

SpecParse == InitParse /\ [][NextParse]_vars

SpecConv == InitConv /\ [][NextParse]_vars

Returned == result # <<>> /\ ~result[1].raised

Rows == result[1].rows

(***************************************************************************)
(* C1                                                                      *)
(***************************************************************************)
ConvElement == file_content[2].element

ConvRaw == file_content[2].slots[1].val

\* the column of the returned row that holds the reading under test
ConvStored == LET r == Rows[1]
              IN CASE ConvElement = "TMAX" -> r.tmax
                   [] ConvElement = "TMIN" -> r.tmin
                   [] ConvElement = "PRCP" -> r.prcp
                   [] ConvElement = "SNOW" -> r.snow

\* C1 as stated: a TMAX/TMIN reading v is stored as trunc(v*9/5) + 320, the
\* product truncated toward zero before 320 is added; PRCP and SNOW readings
\* are stored unchanged.
C1_ProductTruncated ==
  Returned =>
    /\ Len(Rows) = 1
    /\ ConvStored = Some(IF ConvElement \in {"TMAX", "TMIN"}
                         THEN TruncDiv(9 * ConvRaw, 5) + 320
                         ELSE ConvRaw)

\* C1 amended: the sum v*9/5 + 320 is truncated toward zero.  That is
\* trunc(v*9/5) + 320 when v >= 0, when v <= -178 or when v is a multiple of
\* 5, and one less (floor(v*9/5) + 320) for -177 <= v <= -1 not a multiple
\* of 5; PRCP and SNOW readings are stored unchanged.
C1_SumTruncated ==
  Returned =>
    /\ Len(Rows) = 1
    /\ ConvStored = Some(IF ConvElement \in {"TMAX", "TMIN"}
                         THEN IF ConvRaw >= -177 /\ ConvRaw <= -1 /\ ConvRaw % 5 # 0
                              THEN TruncDiv(9 * ConvRaw, 5) + 319
                              ELSE TruncDiv(9 * ConvRaw, 5) + 320
                         ELSE ConvRaw)

\* a negative inexact temperature reading has been converted and stored
C1_Witness ==
  /\ Returned
  /\ ConvElement = "TMAX"
  /\ ConvRaw = -1
  /\ ConvStored = Some(318)

(***************************************************************************)
(* C4                                                                      *)
(***************************************************************************)
RemoveAt(content, i) ==
  [j \in 1..(Len(content) - 1) |-> IF j < i THEN content[j] ELSE content[j + 1]]

Unrecognized(line) == line.len >= LINE_MIN_LEN /\ line.element \notin Elements

\* C4: a line of at least 269 characters whose element code is not TMAX,
\* TMIN, PRCP or SNOW is skipped whatever its other columns hold: the call
\* ends as it does on the file without that line (no reading of the line is
\* stored, the line surfaces no error, the other lines are decoded).
C4_UnrecognizedLineSkipped ==
  result # <<>> =>
    \A i \in 1..Len(file_content) :
      Unrecognized(file_content[i]) =>
        result[1] = parse_dly_file(RemoveAt(file_content, i), US1)

\* what the code does: the line is skipped when it is older than MIN_YEAR or
\* when its year and month fields are numeric
C4_SkippedWhenHeaderNumeric ==
  result # <<>> =>
    \A i \in 1..Len(file_content) :
      ( /\ Unrecognized(file_content[i])
        /\ file_content[i].year.kind = "int"
        /\ \/ file_content[i].year.val < MIN_YEAR
           \/ file_content[i].month.kind = "int" ) =>
        result[1] = parse_dly_file(RemoveAt(file_content, i), US1)

(***************************************************************************)
(* C5                                                                      *)
(***************************************************************************)
\* the dates for which the file holds a TMAX or TMIN reading that is
\* non-missing, numeric and on a valid date of a line that is long enough and
\* not older than MIN_YEAR
QualifyingTemp(line, day) ==
  /\ line.len >= LINE_MIN_LEN
  /\ line.year.kind = "int"
  /\ line.year.val >= MIN_YEAR
  /\ line.month.kind = "int"
  /\ line.element \in {"TMAX", "TMIN"}
  /\ line.slots[day].kind = "int"
  /\ line.slots[day] # Sentinel
  /\ IsValidDate(line.year.val, line.month.val, day)

TempDates(content) ==
  { <<content[p[1]].year.val, content[p[1]].month.val, p[2]>> :
      p \in { q \in (1..Len(content)) \X (1..LAST_SLOT) :
                QualifyingTemp(content[q[1]], q[2]) } }

ReturnedRows == IF result[1].raised THEN <<>> ELSE result[1].rows

InclusionPolicy(rows) ==
  /\ \A k \in 1..Len(rows) : rows[k].tmax # None \/ rows[k].tmin # None
  /\ \A k \in 1..Len(rows) : rows[k].date \in TempDates(file_content)
  /\ \A d \in TempDates(file_content) :
       Cardinality({ k \in 1..Len(rows) : rows[k].date = d }) = 1

\* C5: for every station file, every returned row has a non-null tmax or
\* tmin, a date without a qualifying temperature reading is in no returned
\* row, and every date with one is in exactly one returned row.
C5_TemperatureDatesReturned ==
  result # <<>> => InclusionPolicy(ReturnedRows)

\* what the code does: the inclusion policy holds of every call that returns
C5_WhenReturned ==
  Returned => InclusionPolicy(Rows)

(***************************************************************************)
(* The store: download_stations, insert_batch, update_station_date_ranges  *)
(***************************************************************************)
\* str.startswith("US") on a station id, a tuple of characters
StartsWithUS(station_id) ==
  Len(station_id) >= 2 /\ station_id[1] = "U" /\ station_id[2] = "S"

\* INSERT INTO stations ... ON CONFLICT (id) DO UPDATE SET name, latitude,
\* longitude, elevation; a new row gets the columns the statement does not
\* name (min_date, max_date) as NULL
UpsertStation(table, s) ==
  IF \E x \in table : x.id = s.id
  THEN { IF x.id = s.id
         THEN [x EXCEPT !.name = s.name, !.latitude = s.latitude,
                        !.longitude = s.longitude, !.elevation = s.elevation]
         ELSE x : x \in table }
  ELSE table \cup { [id |-> s.id, name |-> s.name, latitude |-> s.latitude,
                     longitude |-> s.longitude, elevation |-> s.elevation,
                     min_date |-> None, max_date |-> None] }

\* the loop over the feed (`if not station_id.startswith("US"): continue`)
\* followed by the upsert of the collected tuples
RECURSIVE download_stations(_, _, _)
download_stations(table, lines, i) ==
  IF i > Len(lines) THEN table
  ELSE download_stations(
         IF StartsWithUS(lines[i].id) THEN UpsertStation(table, lines[i]) ELSE table,
         lines, i + 1)

SameKey(x, r) == x.station_id = r.station_id /\ x.date = r.date

\* INSERT without ON CONFLICT on a table without the key constraint
UpsertRowNoConflictTarget(table, r) == table \cup {r}

\* ON CONFLICT keeps the stored value where the new one is NULL
UpsertRowCoalesce(table, r) ==
  IF \E x \in table : SameKey(x, r)
  THEN { IF SameKey(x, r)
         THEN [x EXCEPT !.tmax = IF r.tmax = None THEN @ ELSE r.tmax,
                        !.tmin = IF r.tmin = None THEN @ ELSE r.tmin,
                        !.prcp = IF r.prcp = None THEN @ ELSE r.prcp,
                        !.snow = IF r.snow = None THEN @ ELSE r.snow]
         ELSE x : x \in table }
  ELSE table \cup {r}

\* INSERT INTO weather_daily ... ON CONFLICT (station_id, date) DO UPDATE SET
\* tmax, tmin, prcp, snow = EXCLUDED.*, for one row of VALUES
UpsertRow(table, r) ==
  IF \E x \in table : SameKey(x, r)
  THEN { IF SameKey(x, r)
         THEN [x EXCEPT !.tmax = r.tmax, !.tmin = r.tmin,
                        !.prcp = r.prcp, !.snow = r.snow]
         ELSE x : x \in table }
  ELSE table \cup {r}

\* insert_batch when execute_values and commit succeed: the rows of the batch
\* are upserted in order inside one transaction
RECURSIVE insert_batch(_, _, _)
insert_batch(table, records, i) ==
  IF i > Len(records) THEN table
  ELSE insert_batch(UpsertRow(table, records[i]), records, i + 1)

\* the first row of the batch stays stored (autocommit)
InsertBatchRaisedPartial(table, records) == UpsertRow(table, records[1])

\* insert_batch when execute_values or commit raises: conn.commit() was not
\* reached and main closes the connection, so nothing of the batch is stored
InsertBatchRaised(table, records) == table

MinDate(S) == CHOOSE d \in S : \A e \in S : d = e \/ DateLess(d, e)

MaxDate(S) == CHOOSE d \in S : \A e \in S : d = e \/ DateLess(e, d)

DatesOf(table, id) == { x.date : x \in { y \in table : y.station_id = id } }

\* a LEFT JOIN in place of the inner join: stations without rows get NULL
UpdateRangesLeftJoin(st, w) ==
  { IF DatesOf(w, x.id) # {}
    THEN [x EXCEPT !.min_date = Some(MinDate(DatesOf(w, x.id))),
                   !.max_date = Some(MaxDate(DatesOf(w, x.id)))]
    ELSE [x EXCEPT !.min_date = None, !.max_date = None] : x \in st }

\* UPDATE stations s SET min_date, max_date FROM (SELECT station_id,
\* MIN(date), MAX(date) FROM weather_daily GROUP BY station_id) sub
\* WHERE s.id = sub.station_id
update_station_date_ranges(st, w) ==
  { IF DatesOf(w, x.id) # {}
    THEN [x EXCEPT !.min_date = Some(MinDate(DatesOf(w, x.id))),
                   !.max_date = Some(MaxDate(DatesOf(w, x.id)))]
    ELSE x : x \in st }

(***************************************************************************)
(* Inputs of a run                                                         *)
(***************************************************************************)
US2 == <<"U", "S", "2">>

US3 == <<"U", "S", "3">>

CA1 == <<"C", "A", "1">>

StationLine(id, name, lat, lon, elev) ==
  [id |-> id, name |-> name, latitude |-> lat, longitude |-> lon, elevation |-> elev]

FeedSet ==
  { << StationLine(US1, "ALPHA", 40, -75, Some(10)),
       StationLine(CA1, "GAMMA", 50, -100, None),
       StationLine(US2, "BETA", 41, -76, None) >>,
    << StationLine(US1, "ALPHA AP", 40, -75, Some(12)) >> }

\* the end-to-end file of the specification: TMAX 2020-03-01 = 150, 2020-03-02
\* missing, PRCP 2020-03-01 = 10
FileOne ==
  << Line(Y(2020), Y(3), "TMAX", (1 :> Int5(150)) @@ (2 :> Sentinel)),
     Line(Y(2020), Y(3), "PRCP", 1 :> Int5(10)) >>

\* two dates
FileTwo ==
  << Line(Y(2021), Y(7), "TMIN", (1 :> Int5(100)) @@ (2 :> Int5(120))),
     Line(Y(2021), Y(7), "SNOW", 2 :> Int5(0)) >>

\* precipitation only: no row
FilePrcp == << Line(Y(2020), Y(3), "PRCP", 1 :> Int5(10)) >>

\* a line whose year field is not numeric
FileText ==
  << Line(Y(2020), Y(3), "TMAX", 1 :> Int5(150)),
     Line(Text, Y(3), "TAVG", 1 :> Int5(150)) >>

\* the files of the archive, by name
FileContent(name) ==
  CASE name = "one" -> FileOne
    [] name = "two" -> FileTwo
    [] name = "prcp" -> FilePrcp
    [] name = "text" -> FileText
    [] OTHER -> <<>>

\* member.name = <dir>/<stem><suffix>; isreg = FALSE: tar.extractfile returns
\* None; content names what f.read().decode() returns
Member(stem, suffix, isreg, content) ==
  [stem |-> stem, suffix |-> suffix, isreg |-> isreg, content |-> content]

MemberSet ==
  { Member(US1, ".dly", TRUE, "one"),
    Member(US2, ".dly", TRUE, "two"),
    Member(US2, ".dly", TRUE, "prcp"),
    Member(US1, ".dly", TRUE, "text"),
    Member(CA1, ".dly", TRUE, "one"),
    Member(US1, ".txt", TRUE, "one"),
    Member(US2, ".dly", FALSE, "none") }

WeatherRow(id, d, month, day, tmax, tmin, prcp, snow) ==
  [station_id |-> id, date |-> d, month |-> month, day |-> day,
   tmax |-> tmax, tmin |-> tmin, prcp |-> prcp, snow |-> snow]

StationRow(id, name, lat, lon, elev, min_date, max_date) ==
  [id |-> id, name |-> name, latitude |-> lat, longitude |-> lon,
   elevation |-> elev, min_date |-> min_date, max_date |-> max_date]

\* stored states a run may start from.  The database outlives the script and
\* is not written by it alone: the empty tables, and tables left by earlier
\* loads (a station whose range is stale, a station without rows, a row whose
\* columns are all non-null, a row whose month and day columns were never
\* filled in)
StoreSet ==
  { [stations |-> {}, weather |-> {}],
    [stations |-> { StationRow(US1, "ALPHA OLD", 40, -75, None,
                               Some(<<2019, 1, 1>>), Some(<<2019, 1, 1>>)),
                    StationRow(US3, "DELTA", 30, -90, Some(5),
                               Some(<<2018, 5, 5>>), Some(<<2018, 6, 6>>)) },
     weather |-> { WeatherRow(US1, <<2020, 3, 1>>, 0, 0,
                              Some(100), Some(50), Some(5), Some(1)),
                   WeatherRow(US1, <<2019, 1, 1>>, 1, 1,
                              Some(300), None, None, None) }] }

(***************************************************************************)
(* main: download_stations; import_weather_data; update_station_date_ranges*)
(***************************************************************************)
ParseIdle == file_content = <<>> /\ result = <<>>

Init ==
  /\ ParseIdle
  /\ pc = "download_stations"
  /\ run = "first"
  /\ feed \in FeedSet
  /\ archive \in SeqsUpTo(MemberSet, MaxMembers)
  /\ idx = 1
  /\ \E store \in StoreSet :
       /\ stations = store.stations /\ stations0 = store.stations
       /\ weather = store.weather /\ weather0 = store.weather
  /\ batch = <<>>
  /\ total_records = 0
  /\ stations_processed = 0
  /\ error = <<>>
  /\ flushLog = <<>>
  /\ last_commit = <<>>
  /\ ranges_updated = FALSE
  /\ after_first = <<>>

history == <<last_commit, stations0, weather0, ranges_updated, after_first>>

inputs == <<run, feed, archive>>

\* `if len(batch) > BATCH_SIZE`
ThresholdReachedStrict(b) == Len(b) > BATCH_SIZE

\* `if len(batch) >= BATCH_SIZE`
ThresholdReached(b) == Len(b) >= BATCH_SIZE

\* batch = records
ExtendReplaces(b, records) == records

\* batch.extend(records)
Extend(b, records) == b \o records

\* the three `continue` at the head of `for member in tar`
Skipped(member) ==
  \/ member.suffix # ".dly"
  \/ ~StartsWithUS(member.stem)
  \/ ~member.isreg

\* records = parse_dly_file(content, station_id), station_id the filename stem
\* (evaluated once per member of MemberSet)
ParsedMembers ==
  [m \in MemberSet |-> parse_dly_file(FileContent(m.content), m.stem)]

Parsed(member) == ParsedMembers[member]

LogEntry(records, ok, final, appended) ==
  [records |-> records, ok |-> ok, final |-> final, appended |-> appended]

\* download_stations(conn), then the first statements of import_weather_data
DownloadStations ==
  /\ pc = "download_stations"
  /\ stations' = download_stations(stations, feed, 1)
  /\ pc' = "import_weather_data"
  /\ idx' = 1
  /\ batch' = <<>>
  /\ total_records' = 0
  /\ stations_processed' = 0
  /\ UNCHANGED <<parseVars, inputs, weather, error, flushLog, history>>

\* a member that is no .dly file, no US station or no regular file
SkipMember ==
  /\ pc = "import_weather_data"
  /\ idx <= Len(archive)
  /\ Skipped(archive[idx])
  /\ idx' = idx + 1
  /\ UNCHANGED <<parseVars, inputs, pc, stations, weather, batch, total_records,
                 stations_processed, error, flushLog, history>>

\* parse_dly_file raises ValueError: it leaves import_weather_data and main
ParseRaises ==
  /\ pc = "import_weather_data"
  /\ idx <= Len(archive)
  /\ ~Skipped(archive[idx])
  /\ Parsed(archive[idx]).raised
  /\ pc' = "failed"
  /\ error' = <<"ValueError">>
  /\ UNCHANGED <<parseVars, inputs, idx, stations, weather, batch, total_records,
                 stations_processed, flushLog, history>>

\* `if records:` is false
NoRecords ==
  /\ pc = "import_weather_data"
  /\ idx <= Len(archive)
  /\ ~Skipped(archive[idx])
  /\ ~Parsed(archive[idx]).raised
  /\ Parsed(archive[idx]).rows = <<>>
  /\ idx' = idx + 1
  /\ UNCHANGED <<parseVars, inputs, pc, stations, weather, batch, total_records,
                 stations_processed, error, flushLog, history>>

\* batch.extend(records) leaves the batch below the threshold
BufferMember ==
  /\ pc = "import_weather_data"
  /\ idx <= Len(archive)
  /\ ~Skipped(archive[idx])
  /\ ~Parsed(archive[idx]).raised
  /\ Parsed(archive[idx]).rows # <<>>
  /\ ~ThresholdReached(Extend(batch, Parsed(archive[idx]).rows))
  /\ batch' = Extend(batch, Parsed(archive[idx]).rows)
  /\ stations_processed' = stations_processed + 1
  /\ idx' = idx + 1
  /\ UNCHANGED <<parseVars, inputs, pc, stations, weather, total_records, error,
                 flushLog, history>>

\* batch.extend(records) reaches the threshold and insert_batch commits
FlushMember ==
  /\ pc = "import_weather_data"
  /\ idx <= Len(archive)
  /\ ~Skipped(archive[idx])
  /\ ~Parsed(archive[idx]).raised
  /\ Parsed(archive[idx]).rows # <<>>
  /\ LET b == Extend(batch, Parsed(archive[idx]).rows)
     IN /\ ThresholdReached(b)
        /\ weather' = insert_batch(weather, b, 1)
        /\ last_commit' = << [pre |-> weather, records |-> b] >>
        /\ total_records' = total_records + Len(b)
        /\ flushLog' = Append(flushLog,
                              LogEntry(b, TRUE, FALSE, Len(Parsed(archive[idx]).rows)))
  /\ batch' = <<>>
  /\ stations_processed' = stations_processed + 1
  /\ idx' = idx + 1
  /\ UNCHANGED <<parseVars, inputs, pc, stations, error, stations0, weather0,
                 ranges_updated, after_first>>

\* batch.extend(records) reaches the threshold and insert_batch raises
FlushMemberRaises ==
  /\ pc = "import_weather_data"
  /\ idx <= Len(archive)
  /\ ~Skipped(archive[idx])
  /\ ~Parsed(archive[idx]).raised
  /\ Parsed(archive[idx]).rows # <<>>
  /\ LET b == Extend(batch, Parsed(archive[idx]).rows)
     IN /\ ThresholdReached(b)
        /\ weather' = InsertBatchRaised(weather, b)
        /\ batch' = b
        /\ flushLog' = Append(flushLog,
                              LogEntry(b, FALSE, FALSE, Len(Parsed(archive[idx]).rows)))
  /\ stations_processed' = stations_processed + 1
  /\ pc' = "failed"
  /\ error' = <<"insert_batch">>
  /\ UNCHANGED <<parseVars, inputs, idx, stations, total_records, history>>

\* `if batch:` after the loop, insert_batch commits; the list is not cleared
FinalFlush ==
  /\ pc = "import_weather_data"
  /\ idx > Len(archive)
  /\ batch # <<>>
  /\ weather' = insert_batch(weather, batch, 1)
  /\ last_commit' = << [pre |-> weather, records |-> batch] >>
  /\ total_records' = total_records + Len(batch)
  /\ flushLog' = Append(flushLog, LogEntry(batch, TRUE, TRUE, 0))
  /\ pc' = "update_station_date_ranges"
  /\ UNCHANGED <<parseVars, inputs, idx, stations, batch, stations_processed, error,
                 stations0, weather0, ranges_updated, after_first>>

\* `if batch:` after the loop, insert_batch raises
FinalFlushRaises ==
  /\ pc = "import_weather_data"
  /\ idx > Len(archive)
  /\ batch # <<>>
  /\ weather' = InsertBatchRaised(weather, batch)
  /\ flushLog' = Append(flushLog, LogEntry(batch, FALSE, TRUE, 0))
  /\ pc' = "failed"
  /\ error' = <<"insert_batch">>
  /\ UNCHANGED <<parseVars, inputs, idx, stations, batch, total_records,
                 stations_processed, history>>

\* `if batch:` after the loop is false
NothingToFlush ==
  /\ pc = "import_weather_data"
  /\ idx > Len(archive)
  /\ batch = <<>>
  /\ pc' = "update_station_date_ranges"
  /\ UNCHANGED <<parseVars, inputs, idx, stations, weather, batch, total_records,
                 stations_processed, error, flushLog, history>>

UpdateStationDateRanges ==
  /\ pc = "update_station_date_ranges"
  /\ stations' = update_station_date_ranges(stations, weather)
  /\ ranges_updated' = TRUE
  /\ pc' = "done"
  /\ UNCHANGED <<parseVars, inputs, idx, weather, batch, total_records,
                 stations_processed, error, flushLog, last_commit, stations0,
                 weather0, after_first>>

\* the script is run again on the same feed and the same archive
Rerun ==
  /\ pc \in {"done", "failed"}
  /\ run = "first"
  /\ run' = "second"
  /\ after_first' = << [pc |-> pc, stations |-> stations, weather |-> weather] >>
  /\ pc' = "download_stations"
  /\ error' = <<>>
  /\ flushLog' = <<>>
  /\ stations0' = stations
  /\ weather0' = weather
  /\ ranges_updated' = FALSE
  /\ UNCHANGED <<parseVars, feed, archive, idx, stations, weather, batch,
                 total_records, stations_processed, last_commit>>

Next ==
  \/ DownloadStations
  \/ SkipMember
  \/ ParseRaises
  \/ NoRecords
  \/ BufferMember
  \/ FlushMember
  \/ FlushMemberRaises
  \/ FinalFlush
  \/ FinalFlushRaises
  \/ NothingToFlush
  \/ UpdateStationDateRanges
  \/ Rerun

Spec == Init /\ [][Next]_vars

(***************************************************************************)
(* What a run was given and what it handed to insert_batch                 *)
(***************************************************************************)
\* the rows parse_dly_file returned for the members before position n
RECURSIVE StreamRows(_)
StreamRows(n) ==
  IF n <= 1 THEN <<>>
  ELSE StreamRows(n - 1)
       \o (IF Skipped(archive[n - 1]) THEN <<>> ELSE Parsed(archive[n - 1]).rows)

\* the rows of the committed insert_batch calls, in call order
RECURSIVE FlushedRows(_)
FlushedRows(n) ==
  IF n = 0 THEN <<>>
  ELSE FlushedRows(n - 1) \o (IF flushLog[n].ok THEN flushLog[n].records ELSE <<>>)

\* weather_daily after the committed insert_batch calls 1..n of this run
RECURSIVE Committed(_)
Committed(n) ==
  IF n = 0 THEN weather0
  ELSE IF flushLog[n].ok THEN insert_batch(Committed(n - 1), flushLog[n].records, 1)
  ELSE Committed(n - 1)

\* the last row of the batch with the key of x
LastWithKey(records, x) ==
  records[CHOOSE i \in 1..Len(records) :
            /\ SameKey(x, records[i])
            /\ \A j \in (i + 1)..Len(records) : ~SameKey(x, records[j])]

InBatch(records, x) == \E i \in 1..Len(records) : SameKey(x, records[i])

\* import_weather_data has returned
ImportReturned == pc \in {"update_station_date_ranges", "done"}

(***************************************************************************)
(* C2                                                                      *)
(***************************************************************************)
\* C2 as stated: no batch handed to insert_batch holds more than BATCH_SIZE
\* rows; a stream of BATCH_SIZE-1 or BATCH_SIZE rows is flushed by exactly one
\* call and a stream of BATCH_SIZE+1 rows by exactly two, however the rows
\* are spread over the station files.
C2_FlushAtThreshold ==
  /\ \A k \in 1..Len(flushLog) : Len(flushLog[k].records) <= BATCH_SIZE
  /\ ImportReturned =>
       LET n == Len(StreamRows(Len(archive) + 1))
       IN /\ n \in {BATCH_SIZE - 1, BATCH_SIZE} => Len(flushLog) = 1
          /\ n = BATCH_SIZE + 1 => Len(flushLog) = 2

\* C2 amended: the threshold is tested once per station file, after all rows
\* of the file were appended.  Between files the buffer holds fewer than
\* BATCH_SIZE rows; a threshold flush holds at least BATCH_SIZE rows and
\* would hold fewer without the rows of the file appended last (so it may
\* hold more than BATCH_SIZE); the flush after the loop holds 1 to
\* BATCH_SIZE-1 rows.  A stream of BATCH_SIZE-1 or BATCH_SIZE rows is flushed
\* by exactly one call, a stream of BATCH_SIZE+1 rows by one call or by two.
C2_FlushAfterFile ==
  /\ pc = "import_weather_data" => Len(batch) < BATCH_SIZE
  /\ \A k \in 1..Len(flushLog) :
       LET e == flushLog[k]
       IN IF e.final
          THEN Len(e.records) >= 1 /\ Len(e.records) < BATCH_SIZE
          ELSE /\ Len(e.records) >= BATCH_SIZE
               /\ Len(e.records) - e.appended < BATCH_SIZE
  /\ ImportReturned =>
       LET n == Len(StreamRows(Len(archive) + 1))
       IN /\ n \in {BATCH_SIZE - 1, BATCH_SIZE} => Len(flushLog) = 1
          /\ n = BATCH_SIZE + 1 => Len(flushLog) \in {1, 2}

\* a stream of BATCH_SIZE+1 rows went to insert_batch as one batch
C2_Witness ==
  /\ ImportReturned
  /\ Len(StreamRows(Len(archive) + 1)) = BATCH_SIZE + 1
  /\ Len(flushLog) = 1
  /\ Len(flushLog[1].records) = BATCH_SIZE + 1

\* a stream of BATCH_SIZE+1 rows went to insert_batch as two batches
C2_WitnessTwo ==
  /\ ImportReturned
  /\ Len(StreamRows(Len(archive) + 1)) = BATCH_SIZE + 1
  /\ Len(flushLog) = 2

(***************************************************************************)
(* C3                                                                      *)
(***************************************************************************)
StationKeysUnique == \A x, y \in stations : x.id = y.id => x = y

WeatherKeysUnique == \A x, y \in weather : SameKey(x, y) => x = y

\* C3: the store never holds two station rows with one id or two
\* observation rows with one (station_id, date), and when the pipeline has
\* completed twice on the same feed and archive the store after the second
\* run is the store after the first.
C3_RerunIdempotent ==
  /\ StationKeysUnique
  /\ WeatherKeysUnique
  /\ ( /\ run = "second"
       /\ pc = "done"
       /\ after_first[1].pc = "done" ) =>
       /\ stations = after_first[1].stations
       /\ weather = after_first[1].weather

\* the second run has completed after a completed first run, both having
\* upserted stations and observation rows over rows already stored
C3_Witness ==
  /\ run = "second"
  /\ pc = "done"
  /\ after_first[1].pc = "done"
  /\ Len(flushLog) >= 2
  /\ Cardinality(stations) >= 3
  /\ \E k \in 1..Len(flushLog), x \in weather0 : InBatch(flushLog[k].records, x)

(***************************************************************************)
(* C6                                                                      *)
(***************************************************************************)
AllRowsFlushedOnce ==
  /\ \A k \in 1..Len(flushLog) : flushLog[k].ok
  /\ FlushedRows(Len(flushLog)) = StreamRows(Len(archive) + 1)
  /\ total_records = Len(FlushedRows(Len(flushLog)))

\* C6 as stated: when import_weather_data has gone through the archive
\* without a failed flush, the buffer is empty, the rows parse_dly_file
\* returned are the rows handed to insert_batch, each in one batch, and
\* total_records is their number.
C6_BufferEmptyAtEnd ==
  ImportReturned => batch = <<>> /\ AllRowsFlushedOnce

\* C6 amended: when import_weather_data has gone through the archive without
\* a failed flush, no buffered row is left unflushed: the rows parse_dly_file
\* returned are the rows handed to insert_batch, each in one batch, and
\* total_records is their number.  The list `batch` itself is empty only if
\* there was no flush after the loop; after that flush it still holds the rows
\* just flushed.
C6_NoRowLeftUnflushed ==
  ImportReturned =>
    /\ AllRowsFlushedOnce
    /\ batch = IF flushLog # <<>> /\ flushLog[Len(flushLog)].final
               THEN flushLog[Len(flushLog)].records
               ELSE <<>>

\* a threshold flush and a flush after the loop have both committed
C6_Witness ==
  /\ ImportReturned
  /\ Len(flushLog) = 2
  /\ flushLog[1].records # <<>>
  /\ batch = flushLog[2].records
  /\ total_records = Len(StreamRows(Len(archive) + 1))

(***************************************************************************)
(* C7                                                                      *)
(***************************************************************************)
\* C7: once an insert_batch call of the run has failed, the run is aborted
\* with that error: the failed call is the last call, the date ranges are not
\* updated, and weather_daily holds the batches committed before (applied in
\* order to what was stored when the run started) and nothing of the failed
\* batch.
C7_FlushFailureAborts ==
  (\E k \in 1..Len(flushLog) : ~flushLog[k].ok) =>
    /\ pc = "failed"
    /\ error = <<"insert_batch">>
    /\ ~ranges_updated
    /\ \A k \in 1..Len(flushLog) : (flushLog[k].ok <=> (k < Len(flushLog)))
    /\ weather = Committed(Len(flushLog) - 1)
    /\ total_records = Len(FlushedRows(Len(flushLog)))

\* a batch was committed, the next insert_batch call failed
C7_Witness ==
  /\ Len(flushLog) = 2
  /\ flushLog[1].ok
  /\ ~flushLog[2].ok
  /\ weather # weather0
  /\ \E i \in 1..Len(flushLog[2].records) : flushLog[2].records[i] \notin weather

(***************************************************************************)
(* C8                                                                      *)
(***************************************************************************)
\* C8: update_station_date_ranges has run only when the run is done, after
\* every insert_batch call (the one after the loop included) has committed
\* all rows of the stream; then every station with stored observation rows
\* has the earliest and the latest of their dates as min_date and max_date,
\* and every station without any has the min_date and max_date it had when
\* the run started (NULL if the run inserted it).
C8_RangesAfterAllBatches ==
  /\ ranges_updated =>
       /\ pc = "done"
       /\ idx > Len(archive)
       /\ \A k \in 1..Len(flushLog) : flushLog[k].ok
       /\ FlushedRows(Len(flushLog)) = StreamRows(Len(archive) + 1)
       /\ weather = Committed(Len(flushLog))
  /\ pc = "done" =>
       \A s \in stations :
         IF \E x \in weather : x.station_id = s.id
         THEN /\ s.min_date # None /\ s.max_date # None
              /\ \E x \in weather : x.station_id = s.id /\ x.date = s.min_date[1]
              /\ \E x \in weather : x.station_id = s.id /\ x.date = s.max_date[1]
              /\ \A x \in weather :
                   x.station_id = s.id =>
                     /\ ~DateLess(x.date, s.min_date[1])
                     /\ ~DateLess(s.max_date[1], x.date)
         ELSE IF \E s0 \in stations0 : s0.id = s.id
              THEN \E s0 \in stations0 :
                     /\ s0.id = s.id
                     /\ s.min_date = s0.min_date
                     /\ s.max_date = s0.max_date
              ELSE s.min_date = None /\ s.max_date = None

\* the ranges were updated after two committed batches: a station got a
\* range spanning several dates, a station without rows kept a non-null range
C8_Witness ==
  /\ pc = "done"
  /\ run = "first"
  /\ Len(flushLog) = 2
  /\ \E s \in stations : s.min_date # None /\ s.min_date # s.max_date
                         /\ \E x \in weather : x.station_id = s.id
  /\ \E s \in stations : s.min_date # None
                         /\ ~\E x \in weather : x.station_id = s.id

(***************************************************************************)
(* C9                                                                      *)
(***************************************************************************)
\* C9: a committed insert_batch leaves, for every key stored before that is
\* in the batch, one row with the month and day stored before and the tmax,
\* tmin, prcp and snow of the batch's row (nulls included), and leaves every
\* stored row whose key is not in the batch as it was.
C9_UpsertOverwrites ==
  last_commit # <<>> =>
    LET pre == last_commit[1].pre
        records == last_commit[1].records
    IN \A x \in pre :
         IF InBatch(records, x)
         THEN LET r == LastWithKey(records, x)
              IN /\ [x EXCEPT !.tmax = r.tmax, !.tmin = r.tmin,
                              !.prcp = r.prcp, !.snow = r.snow] \in weather
                 /\ Cardinality({ y \in weather : SameKey(x, y) }) = 1
         ELSE x \in weather

\* a batch overwrote a stored row: a null replaced a stored value, the stored
\* month differs from the batch row's, and another stored row was not in the
\* batch
C9_Witness ==
  /\ last_commit # <<>>
  /\ \E x \in last_commit[1].pre :
       /\ InBatch(last_commit[1].records, x)
       /\ x.tmin # None
       /\ LastWithKey(last_commit[1].records, x).tmin = None
       /\ LastWithKey(last_commit[1].records, x).month # x.month
  /\ \E x \in last_commit[1].pre : ~InBatch(last_commit[1].records, x)

(***************************************************************************)
(* C10                                                                     *)
(***************************************************************************)
\* C10: no batch handed to insert_batch holds two rows with the same
\* (station_id, date).
C10_BatchKeysUnique ==
  \A k \in 1..Len(flushLog) :
    \A i, j \in 1..Len(flushLog[k].records) :
      SameKey(flushLog[k].records[i], flushLog[k].records[j]) => i = j

\* what the code does: the rows of one parse_dly_file call have distinct dates
C10_RowsOfOneFileDistinct ==
  Returned => \A i, j \in 1..Len(Rows) : Rows[i].date = Rows[j].date => i = j

=============================================================================
